---- MODULE Spec2Model ----
(***************************************************************************)
(* Model of the two allocators of the repository:                          *)
(*   src/locker_and_packages.py  (LockerManager, strategies, controller)   *)
(*   src/parking_lot.py          (ParkingLot, strategies, controller)      *)
(* Each handler is an operator from the state before the call and its      *)
(* arguments to the state after it and the value returned; the actions     *)
(* apply these operators.                                                  *)
(***************************************************************************)
EXTENDS Integers, Sequences, FiniteSets, TLC

VARIABLES
    program,                    \* which of the two scripts is running
    lockers_by_size,            \* LockerManager.lockers_by_size (dict, in key order)
    lockers_by_customer,        \* LockerManager.lockers_by_customer
    locker_allocation_strategy, \* LockerController.allocation_strategy
    levels,                     \* ParkingLot.levels
    parking_allocation_strategy,\* ParkingLotController.allocation_strategy
    result,                     \* the last call: its name, arguments and return value
    pc,                         \* concurrent callers: position of each thread
    local,                      \* concurrent callers: locals of each thread
    LockerManager_instance,     \* several controllers: LockerManager._instance
    managers,                   \* several controllers: the LockerManager objects
    controllers,                \* several controllers: the LockerController objects
    content,                    \* Document.content, a sequence of characters
    state,                      \* Document.state
    command_history             \* Document.command_history: the text of each command

vars == <<program, lockers_by_size, lockers_by_customer, locker_allocation_strategy,
          levels, parking_allocation_strategy, result, pc, local,
          LockerManager_instance, managers, controllers,
          content, state, command_history>>

lockerVars == <<lockers_by_size, lockers_by_customer, locker_allocation_strategy>>
parkingVars == <<levels, parking_allocation_strategy>>
threadVars == <<pc, local>>
engineVars == <<LockerManager_instance, managers, controllers>>
docVars == <<content, state, command_history>>

----------------------------------------------------------------------------
(* Bounds of the model *)

MaxLockers == 2
MaxSpots == 2
MaxThreads == 2
MaxControllers == 2
MaxContent == 3
MaxHistory == 2

----------------------------------------------------------------------------
(* Values *)

PackageSize == {"SMALL", "MEDIUM", "LARGE"}
\* the sizes of the lockers and packages the calls of the model use
SizesInUse == {"SMALL", "MEDIUM"}
Customers == {"customer_1", "customer_2"}
LockerNames == <<"K0", "K1", "K2", "K3", "K4", "K5">>
LockerStrategies == {"FirstAvailableStrategy", "MostAvailableStrategy"}

\* parking lot: the vehicles that arrive and the spots that are provisioned
Vehicles == {[license_plate |-> "ABC123", kind |-> "Car"],
             [license_plate |-> "XYZ789", kind |-> "Motorcycle"]}
\* a Vehicle that is neither a Car nor a Motorcycle
OtherVehicle == [license_plate |-> "TRK456", kind |-> "Vehicle"]
SpotSizes == {"motorcycle", "compact", "large", "handicapped"}
Distances == {5, 10}
LevelNames == <<"Level1", "Level2">>
SpotNames == <<"A1", "A2", "A3", "A4", "A5", "A6">>
ParkingStrategies == {"FirstAvailableStrategy", "BestFitStrategy",
                      "ClosestToEntranceStrategy"}

NoPackage == [size |-> "None", customer_id |-> "None"]
NoLocker == [size |-> "None", idx |-> 0]
Packages == [size : SizesInUse, customer_id : Customers]

Threads == 1..MaxThreads

NoVehicle == [license_plate |-> "None", kind |-> "None"]
NoSpot == [level |-> 0, idx |-> 0]
\* find_spot left by an exception (KeyError) instead of returning
Raised == [level |-> -1, idx |-> -1]

\* result: op the call, owner the customer_id or license plate it was made for,
\* ret the kind of value returned, unit the locker_id or spot_id in the returned
\* value, returned the Package returned
NoResult ==
    [op |-> "None", owner |-> "None", ret |-> "None", unit |-> "None",
     returned |-> NoPackage, strategy |-> "None", controller |-> 0]

\* the locals of a thread inside park_vehicle / receive_package, and what it returned
NoLocal ==
    [vehicle |-> NoVehicle, package |-> NoPackage, spot |-> NoSpot, locker |-> NoLocker,
     customer_id |-> "None", ret |-> "None"]

----------------------------------------------------------------------------
(* src/locker_and_packages.py *)

Locker(locker_id, size) ==
    [locker_id |-> locker_id, size |-> size, package |-> NoPackage]

Locker_is_available(locker) == locker.package = NoPackage

\* position of a key of the dict, 0 when the key is absent
KeyIndex(lbs, size) ==
    IF \E k \in 1..Len(lbs) : lbs[k].size = size
    THEN CHOOSE k \in 1..Len(lbs) : lbs[k].size = size
    ELSE 0

\* defaultdict(list).__getitem__: an absent key is inserted with an empty list
defaultdict_getitem(lbs, size) ==
    IF KeyIndex(lbs, size) = 0
    THEN Append(lbs, [size |-> size, lockers |-> <<>>])
    ELSE lbs

LockerAt(lbs, ref) == lbs[KeyIndex(lbs, ref.size)].lockers[ref.idx]

LockerRefs(lbs) ==
    UNION {{[size |-> lbs[k].size, idx |-> i] : i \in 1..Len(lbs[k].lockers)} :
              k \in 1..Len(lbs)}

RECURSIVE CountLockers(_, _)
CountLockers(lbs, k) ==
    IF k > Len(lbs) THEN 0 ELSE Len(lbs[k].lockers) + CountLockers(lbs, k + 1)

LockerManager_add_locker(lbs, locker) ==
    LET d == defaultdict_getitem(lbs, locker.size)
        k == KeyIndex(d, locker.size)
    IN  [d EXCEPT ![k].lockers = Append(@, locker)]

\* the indices of the available lockers of a list, in list order
available_lockers(list) ==
    SelectSeq([i \in 1..Len(list) |-> i], LAMBDA i : Locker_is_available(list[i]))

\* mutant: the last free locker of the list is taken
C24_Mutant_find_available_locker(lbs, size) ==
    LET d == defaultdict_getitem(lbs, size)
        avail == available_lockers(d[KeyIndex(d, size)].lockers)
    IN  IF Len(avail) > 0 THEN [size |-> size, idx |-> avail[Len(avail)]] ELSE NoLocker

LockerManager_find_available_locker(lbs, size) ==
    LET d == defaultdict_getitem(lbs, size)
        avail == available_lockers(d[KeyIndex(d, size)].lockers)
    IN  IF Len(avail) > 0 THEN [size |-> size, idx |-> avail[1]] ELSE NoLocker

\* mutant: takes a free locker of any size
C6_Mutant_allocate_locker(package, lbs) ==
    LET free == {u \in LockerRefs(lbs) : Locker_is_available(LockerAt(lbs, u))}
    IN  IF free # {} THEN CHOOSE u \in free : TRUE ELSE NoLocker

Locker_FirstAvailableStrategy_allocate_locker(package, lbs) ==
    LockerManager_find_available_locker(lbs, package.size)

\* the loop of MostAvailableStrategy.allocate_locker over lockers_by_size.items()
RECURSIVE MostAvailable_loop(_, _, _, _)
MostAvailable_loop(lbs, k, max_available, best_size) ==
    IF k > Len(lbs) THEN best_size
    ELSE LET available_count == Len(available_lockers(lbs[k].lockers))
         IN  IF available_count > max_available
             THEN MostAvailable_loop(lbs, k + 1, available_count, lbs[k].size)
             ELSE MostAvailable_loop(lbs, k + 1, max_available, best_size)

\* mutant: the size class of the package is searched
C23_Mutant_allocate_locker(package, lbs) ==
    LockerManager_find_available_locker(lbs, package.size)

MostAvailableStrategy_allocate_locker(package, lbs) ==
    LET best_size == MostAvailable_loop(lbs, 1, -1, "None")
    IN  IF best_size # "None"
        THEN LockerManager_find_available_locker(lbs, best_size)
        ELSE NoLocker

allocate_locker(strategy, package, lbs) ==
    IF strategy = "FirstAvailableStrategy"
    THEN Locker_FirstAvailableStrategy_allocate_locker(package, lbs)
    ELSE MostAvailableStrategy_allocate_locker(package, lbs)

\* the dict after the strategy ran: FirstAvailableStrategy reads
\* lockers_by_size[package.size], which inserts an absent key
after_allocate_locker(strategy, package, lbs) ==
    IF strategy = "FirstAvailableStrategy"
    THEN defaultdict_getitem(lbs, package.size)
    ELSE lbs

Locker_store_package(locker, package) == [locker EXCEPT !.package = package]

Locker_retrieve_package(locker) == [locker EXCEPT !.package = NoPackage]

\* mutant: storing a package drops the index entries of the other customers
C22_Mutant_store_package(lbs, lbc, ref, package) ==
    [lockers_by_size |->
        [lbs EXCEPT ![KeyIndex(lbs, ref.size)].lockers[ref.idx] =
                        Locker_store_package(@, package)],
     lockers_by_customer |->
        [c \in Customers |-> IF c = package.customer_id THEN ref ELSE NoLocker]]

LockerManager_store_package(lbs, lbc, ref, package) ==
    [lockers_by_size |->
        [lbs EXCEPT ![KeyIndex(lbs, ref.size)].lockers[ref.idx] =
                        Locker_store_package(@, package)],
     lockers_by_customer |-> [lbc EXCEPT ![package.customer_id] = ref]]

\* mutant: the index entry is not deleted
C7_Mutant_retrieve_package(lbs, lbc, customer_id) ==
    LET ref == lbc[customer_id]
    IN  IF ref # NoLocker
        THEN [lockers_by_size |->
                 [lbs EXCEPT ![KeyIndex(lbs, ref.size)].lockers[ref.idx] =
                                 Locker_retrieve_package(@)],
              lockers_by_customer |-> lbc,
              package |-> LockerAt(lbs, ref).package,
              locker |-> ref]
        ELSE [lockers_by_size |-> lbs, lockers_by_customer |-> lbc,
              package |-> NoPackage, locker |-> NoLocker]

LockerManager_retrieve_package(lbs, lbc, customer_id) ==
    LET ref == lbc[customer_id]
    IN  IF ref # NoLocker
        THEN [lockers_by_size |->
                 [lbs EXCEPT ![KeyIndex(lbs, ref.size)].lockers[ref.idx] =
                                 Locker_retrieve_package(@)],
              lockers_by_customer |-> [lbc EXCEPT ![customer_id] = NoLocker],
              package |-> LockerAt(lbs, ref).package,
              locker |-> ref]
        ELSE [lockers_by_size |-> lbs, lockers_by_customer |-> lbc,
              package |-> NoPackage, locker |-> NoLocker]

LockerController_receive_package(lbs, lbc, strategy, package) ==
    LET ref == allocate_locker(strategy, package, lbs)
        d == after_allocate_locker(strategy, package, lbs)
    IN  IF ref # NoLocker
        THEN LET s == LockerManager_store_package(d, lbc, ref, package)
             IN  [lockers_by_size |-> s.lockers_by_size,
                  lockers_by_customer |-> s.lockers_by_customer,
                  ret |-> "locker_id", unit |-> LockerAt(d, ref).locker_id,
                  locker |-> ref]
        ELSE [lockers_by_size |-> d, lockers_by_customer |-> lbc,
              ret |-> "No available locker", unit |-> "None", locker |-> NoLocker]

\* mutant: the controller keeps the strategy it was constructed with
C17_Mutant_set_strategy(allocation_strategy, strategy) == allocation_strategy

\* self.allocation_strategy = strategy
LockerController_set_strategy(allocation_strategy, strategy) == strategy

LockerController_retrieve_package(lbs, lbc, customer_id) ==
    LET r == LockerManager_retrieve_package(lbs, lbc, customer_id)
    IN  IF r.package # NoPackage
        THEN [lockers_by_size |-> r.lockers_by_size,
              lockers_by_customer |-> r.lockers_by_customer,
              ret |-> "package", returned |-> r.package, locker |-> r.locker]
        ELSE [lockers_by_size |-> r.lockers_by_size,
              lockers_by_customer |-> r.lockers_by_customer,
              ret |-> "Package not found", returned |-> NoPackage, locker |-> r.locker]

----------------------------------------------------------------------------
(* Actions of the locker script *)

add_locker ==
    /\ program = "locker_and_packages"
    /\ CountLockers(lockers_by_size, 1) < MaxLockers
    /\ \E size \in SizesInUse :
         /\ lockers_by_size' =
               LockerManager_add_locker(lockers_by_size,
                   Locker(LockerNames[CountLockers(lockers_by_size, 1) + 1], size))
         /\ result' = [NoResult EXCEPT !.op = "add_locker"]
    /\ UNCHANGED <<docVars, engineVars, program, lockers_by_customer, locker_allocation_strategy,
                   parkingVars, threadVars>>

set_strategy ==
    /\ program = "locker_and_packages"
    /\ \E strategy \in LockerStrategies :
         /\ locker_allocation_strategy' =
               LockerController_set_strategy(locker_allocation_strategy, strategy)
         /\ result' = [NoResult EXCEPT !.op = "set_strategy", !.strategy = strategy]
    /\ UNCHANGED <<docVars, engineVars, program, lockers_by_size, lockers_by_customer, parkingVars, threadVars>>

receive_package ==
    /\ program = "locker_and_packages"
    /\ \E package \in Packages :
         LET r == LockerController_receive_package(lockers_by_size, lockers_by_customer,
                                                   locker_allocation_strategy, package)
         IN  /\ lockers_by_size' = r.lockers_by_size
             /\ lockers_by_customer' = r.lockers_by_customer
             /\ result' = [NoResult EXCEPT !.op = "receive_package",
                                           !.owner = package.customer_id,
                                           !.ret = r.ret, !.unit = r.unit]
    /\ UNCHANGED <<docVars, engineVars, program, locker_allocation_strategy, parkingVars, threadVars>>

retrieve_package ==
    /\ program = "locker_and_packages"
    /\ \E customer_id \in Customers :
         LET r == LockerController_retrieve_package(lockers_by_size, lockers_by_customer,
                                                    customer_id)
         IN  /\ lockers_by_size' = r.lockers_by_size
             /\ lockers_by_customer' = r.lockers_by_customer
             /\ result' = [NoResult EXCEPT !.op = "retrieve_package",
                                           !.owner = customer_id,
                                           !.ret = r.ret, !.returned = r.returned]
    /\ UNCHANGED <<docVars, engineVars, program, locker_allocation_strategy, parkingVars, threadVars>>

----------------------------------------------------------------------------
(* src/parking_lot.py *)

ParkingSpot(spot_id, size, distance_to_entrance) ==
    [spot_id |-> spot_id, size |-> size,
     distance_to_entrance |-> distance_to_entrance, vehicle |-> NoVehicle]

ParkingLevel(level_id) == [level_id |-> level_id, spots |-> <<>>]

ParkingSpot_is_available(spot) == spot.vehicle = NoVehicle

ParkingSpot_park_vehicle(spot, vehicle) == [spot EXCEPT !.vehicle = vehicle]

ParkingSpot_remove_vehicle(spot) == [spot EXCEPT !.vehicle = NoVehicle]

SpotAt(lv, ref) == lv[ref.level].spots[ref.idx]

\* the spots in the order the nested loops "for level in levels: for spot in
\* level.spots" visit them
RECURSIVE ScanOrder(_, _)
ScanOrder(lv, l) ==
    IF l > Len(lv) THEN <<>>
    ELSE [i \in 1..Len(lv[l].spots) |-> [level |-> l, idx |-> i]] \o ScanOrder(lv, l + 1)

SpotRefs(lv) ==
    LET order == ScanOrder(lv, 1)
    IN  {order[n] : n \in 1..Len(order)}

CountSpots(lv) == Len(ScanOrder(lv, 1))

\* position of a level of the list, 0 when no level has this id
LevelIndex(lv, level_id) ==
    IF \E l \in 1..Len(lv) : lv[l].level_id = level_id
    THEN CHOOSE l \in 1..Len(lv) :
             /\ lv[l].level_id = level_id
             /\ \A m \in 1..(l - 1) : lv[m].level_id # level_id
    ELSE 0

FirstAvailableStrategy_can_fit(vehicle, spot) ==
    IF vehicle.kind = "Motorcycle" THEN TRUE
    ELSE IF vehicle.kind = "Car" THEN spot.size \in {"compact", "large"}
    ELSE FALSE

\* mutant: a car fits every spot
C8_Mutant_can_fit(vehicle, spot) ==
    vehicle.kind \in {"Motorcycle", "Car"}

BestFitStrategy_can_fit(vehicle, spot) ==
    IF vehicle.kind = "Motorcycle" THEN TRUE
    ELSE IF vehicle.kind = "Car" THEN spot.size \in {"compact", "large"}
    ELSE FALSE

\* mutant: whatever is not a motorcycle is treated as a car
C21_Mutant_can_fit(vehicle, spot) ==
    IF vehicle.kind = "Motorcycle" THEN TRUE
    ELSE spot.size \in {"compact", "large"}

ClosestToEntranceStrategy_can_fit(vehicle, spot) ==
    IF vehicle.kind = "Motorcycle" THEN TRUE
    ELSE IF vehicle.kind = "Car" THEN spot.size \in {"compact", "large"}
    ELSE FALSE

RECURSIVE FirstAvailable_loop(_, _, _, _)
FirstAvailable_loop(vehicle, lv, order, n) ==
    IF n > Len(order) THEN NoSpot
    ELSE IF /\ ParkingSpot_is_available(SpotAt(lv, order[n]))
            /\ FirstAvailableStrategy_can_fit(vehicle, SpotAt(lv, order[n]))
         THEN order[n]
         ELSE FirstAvailable_loop(vehicle, lv, order, n + 1)

\* mutant: the scan starts at the spot declared last
RECURSIVE C9_Reverse(_)
C9_Reverse(seq) ==
    IF seq = <<>> THEN <<>> ELSE Append(C9_Reverse(Tail(seq)), Head(seq))

C9_Mutant_find_spot(vehicle, lv) ==
    FirstAvailable_loop(vehicle, lv, C9_Reverse(ScanOrder(lv, 1)), 1)

FirstAvailableStrategy_find_spot(vehicle, lv) ==
    FirstAvailable_loop(vehicle, lv, ScanOrder(lv, 1), 1)

size_priority == [s \in {"motorcycle", "compact", "large"} |->
                     IF s = "motorcycle" THEN 0 ELSE IF s = "compact" THEN 1 ELSE 2]

\* size_priority[...] raises KeyError for a size that is no key of the dict
is_better_spot_raises(spot, best_spot) ==
    \/ spot.size \notin DOMAIN size_priority
    \/ best_spot.size \notin DOMAIN size_priority

\* mutant: a spot of equal priority replaces the best spot so far
C10_Mutant_is_better_spot(spot, best_spot) ==
    size_priority[spot.size] <= size_priority[best_spot.size]

BestFitStrategy_is_better_spot(spot, best_spot) ==
    size_priority[spot.size] < size_priority[best_spot.size]

RECURSIVE BestFit_loop(_, _, _, _, _)
BestFit_loop(vehicle, lv, order, n, best_spot) ==
    IF n > Len(order) THEN best_spot
    ELSE IF /\ ParkingSpot_is_available(SpotAt(lv, order[n]))
            /\ BestFitStrategy_can_fit(vehicle, SpotAt(lv, order[n]))
         THEN IF best_spot = NoSpot
              THEN BestFit_loop(vehicle, lv, order, n + 1, order[n])
              ELSE IF is_better_spot_raises(SpotAt(lv, order[n]), SpotAt(lv, best_spot))
                   THEN Raised
                   ELSE IF BestFitStrategy_is_better_spot(SpotAt(lv, order[n]),
                                                          SpotAt(lv, best_spot))
                        THEN BestFit_loop(vehicle, lv, order, n + 1, order[n])
                        ELSE BestFit_loop(vehicle, lv, order, n + 1, best_spot)
         ELSE BestFit_loop(vehicle, lv, order, n + 1, best_spot)

BestFitStrategy_find_spot(vehicle, lv) ==
    BestFit_loop(vehicle, lv, ScanOrder(lv, 1), 1, NoSpot)

RECURSIVE ClosestToEntrance_loop(_, _, _, _, _)
ClosestToEntrance_loop(vehicle, lv, order, n, closest_spot) ==
    IF n > Len(order) THEN closest_spot
    ELSE IF /\ ParkingSpot_is_available(SpotAt(lv, order[n]))
            /\ ClosestToEntranceStrategy_can_fit(vehicle, SpotAt(lv, order[n]))
            /\ \/ closest_spot = NoSpot
               \/ SpotAt(lv, order[n]).distance_to_entrance
                      < SpotAt(lv, closest_spot).distance_to_entrance
         THEN ClosestToEntrance_loop(vehicle, lv, order, n + 1, order[n])
         ELSE ClosestToEntrance_loop(vehicle, lv, order, n + 1, closest_spot)

\* mutant: the first free compatible spot is taken, whatever its distance
C11_Mutant_find_spot(vehicle, lv) ==
    FirstAvailable_loop(vehicle, lv, ScanOrder(lv, 1), 1)

ClosestToEntranceStrategy_find_spot(vehicle, lv) ==
    ClosestToEntrance_loop(vehicle, lv, ScanOrder(lv, 1), 1, NoSpot)

find_spot(strategy, vehicle, lv) ==
    IF strategy = "FirstAvailableStrategy"
    THEN FirstAvailableStrategy_find_spot(vehicle, lv)
    ELSE IF strategy = "BestFitStrategy"
         THEN BestFitStrategy_find_spot(vehicle, lv)
         ELSE ClosestToEntranceStrategy_find_spot(vehicle, lv)

\* mutant: a level is created for every spot, whether or not level_id exists
C16_Mutant_add_parking_spot(lv, level_id, spot_id, size, distance_to_entrance) ==
    Append(lv, [ParkingLevel(level_id) EXCEPT
                   !.spots = Append(@, ParkingSpot(spot_id, size, distance_to_entrance))])

ParkingLotController_add_parking_spot(lv, level_id, spot_id, size, distance_to_entrance) ==
    LET l == LevelIndex(lv, level_id)
        spot == ParkingSpot(spot_id, size, distance_to_entrance)
    IN  IF l # 0
        THEN [lv EXCEPT ![l].spots = Append(@, spot)]
        ELSE Append(lv, [ParkingLevel(level_id) EXCEPT !.spots = Append(@, spot)])

ParkingLotController_park_vehicle(lv, strategy, vehicle) ==
    LET spot == find_spot(strategy, vehicle, lv)
    IN  IF spot = Raised
        THEN [levels |-> lv, ret |-> "KeyError", unit |-> "None", spot |-> NoSpot]
        ELSE IF spot # NoSpot
             THEN [levels |-> [lv EXCEPT ![spot.level].spots[spot.idx] =
                                             ParkingSpot_park_vehicle(@, vehicle)],
                   ret |-> "parked", unit |-> SpotAt(lv, spot).spot_id, spot |-> spot]
             ELSE [levels |-> lv, ret |-> "No available spot", unit |-> "None",
                   spot |-> NoSpot]

RECURSIVE unpark_loop(_, _, _, _)
unpark_loop(lv, order, n, spot_id) ==
    IF n > Len(order) THEN NoSpot
    ELSE IF /\ SpotAt(lv, order[n]).spot_id = spot_id
            /\ ~ParkingSpot_is_available(SpotAt(lv, order[n]))
         THEN order[n]
         ELSE unpark_loop(lv, order, n + 1, spot_id)

\* mutant: every occupied spot with this id is emptied
C25_Mutant_unpark_vehicle(lv, spot_id) ==
    LET spot == unpark_loop(lv, ScanOrder(lv, 1), 1, spot_id)
    IN  IF spot # NoSpot
        THEN [levels |->
                 [l \in 1..Len(lv) |->
                     [lv[l] EXCEPT !.spots =
                         [i \in 1..Len(lv[l].spots) |->
                             IF lv[l].spots[i].spot_id = spot_id
                             THEN ParkingSpot_remove_vehicle(lv[l].spots[i])
                             ELSE lv[l].spots[i]]]],
              ret |-> "removed", owner |-> SpotAt(lv, spot).vehicle.license_plate,
              spot |-> spot]
        ELSE [levels |-> lv, ret |-> "Spot not found or already empty",
              owner |-> "None", spot |-> NoSpot]

ParkingLotController_unpark_vehicle(lv, spot_id) ==
    LET spot == unpark_loop(lv, ScanOrder(lv, 1), 1, spot_id)
    IN  IF spot # NoSpot
        THEN [levels |-> [lv EXCEPT ![spot.level].spots[spot.idx] =
                                        ParkingSpot_remove_vehicle(@)],
              ret |-> "removed", owner |-> SpotAt(lv, spot).vehicle.license_plate,
              spot |-> spot]
        ELSE [levels |-> lv, ret |-> "Spot not found or already empty",
              owner |-> "None", spot |-> NoSpot]

----------------------------------------------------------------------------
(* Actions of the parking script *)

\* the level ids a call of add_parking_spot names: a level of the lot, or the next
\* unused name of LevelNames (levels are named in the order they are first used)
NextLevelIds(lv) ==
    {lv[l].level_id : l \in 1..Len(lv)}
        \cup (IF Len(lv) < Len(LevelNames) THEN {LevelNames[Len(lv) + 1]} ELSE {})

add_parking_spot ==
    /\ program = "parking_lot"
    /\ CountSpots(levels) < MaxSpots
    /\ \E level_id \in NextLevelIds(levels), size \in SpotSizes,
          distance_to_entrance \in Distances :
         /\ levels' = ParkingLotController_add_parking_spot(levels, level_id,
                          SpotNames[CountSpots(levels) + 1], size, distance_to_entrance)
         /\ result' = [NoResult EXCEPT !.op = "add_parking_spot"]
    /\ UNCHANGED <<docVars, engineVars, program, parking_allocation_strategy, lockerVars, threadVars>>

park_vehicle ==
    /\ program = "parking_lot"
    /\ \E vehicle \in Vehicles :
         LET r == ParkingLotController_park_vehicle(levels, parking_allocation_strategy,
                                                    vehicle)
         IN  /\ levels' = r.levels
             /\ result' = [NoResult EXCEPT !.op = "park_vehicle",
                                           !.owner = vehicle.license_plate,
                                           !.ret = r.ret, !.unit = r.unit]
    /\ UNCHANGED <<docVars, engineVars, program, parking_allocation_strategy, lockerVars, threadVars>>

unpark_vehicle ==
    /\ program = "parking_lot"
    /\ \E n \in 1..MaxSpots :
         LET r == ParkingLotController_unpark_vehicle(levels, SpotNames[n])
         IN  /\ levels' = r.levels
             /\ result' = [NoResult EXCEPT !.op = "unpark_vehicle", !.owner = r.owner,
                                           !.ret = r.ret, !.unit = SpotNames[n]]
    /\ UNCHANGED <<docVars, engineVars, program, parking_allocation_strategy, lockerVars, threadVars>>

----------------------------------------------------------------------------

Init ==
    /\ program \in {"locker_and_packages", "parking_lot"}
    /\ lockers_by_size = <<>>
    /\ lockers_by_customer = [c \in Customers |-> NoLocker]
    /\ IF program = "locker_and_packages"
       THEN /\ locker_allocation_strategy \in LockerStrategies
            /\ parking_allocation_strategy = "None"
       ELSE /\ locker_allocation_strategy = "None"
            /\ parking_allocation_strategy \in ParkingStrategies
    /\ levels = <<>>
    /\ result = NoResult
    /\ pc = <<>>
    /\ local = <<>>
    /\ LockerManager_instance = 0
    /\ managers = <<>>
    /\ controllers = <<>>
    /\ content = <<>>
    /\ state = "None"
    /\ command_history = <<>>

NextLocker ==
    \/ add_locker
    \/ set_strategy
    \/ receive_package
    \/ retrieve_package

NextParking ==
    \/ add_parking_spot
    \/ park_vehicle
    \/ unpark_vehicle

Next ==
    \/ NextLocker
    \/ NextParking

\* sequential callers of either script
Spec == Init /\ [][Next]_vars

\* sequential callers of src/locker_and_packages.py alone
InitLocker == Init /\ program = "locker_and_packages"
SpecLocker == InitLocker /\ [][NextLocker]_vars

\* sequential callers of src/locker_and_packages.py whose controller is constructed
\* with FirstAvailableStrategy and never given another strategy
InitFirstAvailable ==
    InitLocker /\ locker_allocation_strategy = "FirstAvailableStrategy"

NextFirstAvailable ==
    \/ add_locker
    \/ receive_package
    \/ retrieve_package

SpecFirstAvailable == InitFirstAvailable /\ [][NextFirstAvailable]_vars

\* sequential callers of src/parking_lot.py alone
InitParking == Init /\ program = "parking_lot"
SpecParking == InitParking /\ [][NextParking]_vars

\* provisioning with an id of the caller's choice: locker_manager.add_locker(
\* Locker(id, size)) of lines 108-111 and add_parking_spot(level, id, size,
\* distance) of lines 161-165 with any of the ids already handed out or the next
add_locker_any_id ==
    /\ program = "locker_and_packages"
    /\ CountLockers(lockers_by_size, 1) < MaxLockers
    /\ \E n \in 1..MaxLockers, size \in SizesInUse :
         /\ lockers_by_size' =
               LockerManager_add_locker(lockers_by_size, Locker(LockerNames[n], size))
         /\ result' = [NoResult EXCEPT !.op = "add_locker", !.unit = LockerNames[n]]
    /\ UNCHANGED <<docVars, engineVars, program, lockers_by_customer, locker_allocation_strategy,
                   parkingVars, threadVars>>

add_parking_spot_any_id ==
    /\ program = "parking_lot"
    /\ CountSpots(levels) < MaxSpots
    /\ \E n \in 1..MaxSpots, level_id \in NextLevelIds(levels), size \in SpotSizes,
          distance_to_entrance \in Distances :
         /\ levels' = ParkingLotController_add_parking_spot(levels, level_id,
                          SpotNames[n], size, distance_to_entrance)
         /\ result' = [NoResult EXCEPT !.op = "add_parking_spot", !.unit = SpotNames[n]]
    /\ UNCHANGED <<docVars, engineVars, program, parking_allocation_strategy, lockerVars, threadVars>>

NextProvision ==
    \/ add_locker_any_id
    \/ set_strategy
    \/ receive_package
    \/ retrieve_package
    \/ add_parking_spot_any_id
    \/ park_vehicle
    \/ unpark_vehicle

\* sequential callers of either script that choose the unit ids themselves
SpecProvision == Init /\ [][NextProvision]_vars

----------------------------------------------------------------------------
(* Concurrent callers. Neither controller takes a lock, so a thread running     *)
(* park_vehicle (receive_package) can be preempted between the strategy's scan  *)
(* and spot.park_vehicle (between the scan, locker.store_package and the index  *)
(* insertion). Each thread makes one call.                                      *)

\* ParkingLotController.park_vehicle, line 141: spot = find_spot(...)
t_find_spot(t) ==
    /\ program = "parking_lot"
    /\ pc[t] = "idle"
    /\ \E vehicle \in Vehicles :
         LET spot == find_spot(parking_allocation_strategy, vehicle, levels)
         IN  IF spot = Raised
             THEN /\ pc' = [pc EXCEPT ![t] = "done"]
                  /\ local' = [local EXCEPT ![t] =
                                  [NoLocal EXCEPT !.vehicle = vehicle, !.ret = "KeyError"]]
             ELSE IF spot # NoSpot
                  THEN /\ pc' = [pc EXCEPT ![t] = "park_vehicle"]
                       /\ local' = [local EXCEPT ![t] =
                                       [NoLocal EXCEPT !.vehicle = vehicle, !.spot = spot]]
                  ELSE /\ pc' = [pc EXCEPT ![t] = "done"]
                       /\ local' = [local EXCEPT ![t] =
                                       [NoLocal EXCEPT !.vehicle = vehicle,
                                                       !.ret = "No available spot"]]
    /\ UNCHANGED <<docVars, engineVars, program, levels, parking_allocation_strategy, lockerVars, result>>

\* ParkingLotController.park_vehicle, lines 142-144: spot.park_vehicle(vehicle)
t_park_vehicle(t) ==
    /\ program = "parking_lot"
    /\ pc[t] = "park_vehicle"
    /\ levels' = [levels EXCEPT ![local[t].spot.level].spots[local[t].spot.idx] =
                                    ParkingSpot_park_vehicle(@, local[t].vehicle)]
    /\ pc' = [pc EXCEPT ![t] = "done"]
    /\ local' = [local EXCEPT ![t].ret = "parked"]
    /\ UNCHANGED <<docVars, engineVars, program, parking_allocation_strategy, lockerVars, result>>

\* LockerController.receive_package, line 96: locker = allocate_locker(...)
t_allocate_locker(t) ==
    /\ program = "locker_and_packages"
    /\ pc[t] = "idle"
    /\ \E package \in Packages :
         LET ref == allocate_locker(locker_allocation_strategy, package, lockers_by_size)
         IN  /\ lockers_by_size' =
                   after_allocate_locker(locker_allocation_strategy, package,
                                         lockers_by_size)
             /\ IF ref # NoLocker
                THEN /\ pc' = [pc EXCEPT ![t] = "store_package"]
                     /\ local' = [local EXCEPT ![t] =
                                     [NoLocal EXCEPT !.package = package, !.locker = ref]]
                ELSE /\ pc' = [pc EXCEPT ![t] = "done"]
                     /\ local' = [local EXCEPT ![t] =
                                     [NoLocal EXCEPT !.package = package,
                                                     !.ret = "No available locker"]]
    /\ UNCHANGED <<docVars, engineVars, program, lockers_by_customer, locker_allocation_strategy,
                   parkingVars, result>>

\* LockerManager.store_package, line 53: locker.store_package(package)
t_store_package(t) ==
    /\ program = "locker_and_packages"
    /\ pc[t] = "store_package"
    /\ lockers_by_size' =
          [lockers_by_size EXCEPT
              ![KeyIndex(lockers_by_size, local[t].locker.size)]
                  .lockers[local[t].locker.idx] =
                      Locker_store_package(@, local[t].package)]
    /\ pc' = [pc EXCEPT ![t] = "index"]
    /\ UNCHANGED <<docVars, engineVars, program, lockers_by_customer, locker_allocation_strategy,
                   parkingVars, result, local>>

\* LockerManager.store_package, line 54, and the return of receive_package
t_index(t) ==
    /\ program = "locker_and_packages"
    /\ pc[t] = "index"
    /\ lockers_by_customer' =
          [lockers_by_customer EXCEPT ![local[t].package.customer_id] = local[t].locker]
    /\ pc' = [pc EXCEPT ![t] = "done"]
    /\ local' = [local EXCEPT ![t].ret = "locker_id"]
    /\ UNCHANGED <<docVars, engineVars, program, lockers_by_size, locker_allocation_strategy,
                   parkingVars, result>>

\* the pools the threads run against: n compact spots on one level, n SMALL and
\* n MEDIUM lockers, provisioned before the threads start
RECURSIVE ConcLevels(_)
ConcLevels(n) ==
    IF n = 0 THEN <<>>
    ELSE ParkingLotController_add_parking_spot(ConcLevels(n - 1), LevelNames[1],
                                               SpotNames[n], "compact", 5)

RECURSIVE ConcLockers(_)
ConcLockers(n) ==
    IF n = 0 THEN <<>>
    ELSE LockerManager_add_locker(ConcLockers(n - 1),
             Locker(LockerNames[n], IF n % 2 = 1 THEN "SMALL" ELSE "MEDIUM"))

InitConc ==
    /\ program \in {"locker_and_packages", "parking_lot"}
    /\ lockers_by_customer = [c \in Customers |-> NoLocker]
    /\ IF program = "locker_and_packages"
       THEN /\ locker_allocation_strategy \in LockerStrategies
            /\ parking_allocation_strategy = "None"
            /\ lockers_by_size \in {ConcLockers(n) : n \in 1..MaxLockers}
            /\ levels = <<>>
       ELSE /\ locker_allocation_strategy = "None"
            /\ parking_allocation_strategy \in ParkingStrategies
            /\ lockers_by_size = <<>>
            /\ levels \in {ConcLevels(n) : n \in 1..MaxSpots}
    /\ result = NoResult
    /\ pc = [t \in Threads |-> "idle"]
    /\ local = [t \in Threads |-> NoLocal]
    /\ LockerManager_instance = 0
    /\ managers = <<>>
    /\ controllers = <<>>
    /\ content = <<>>
    /\ state = "None"
    /\ command_history = <<>>

NextConc ==
    \E t \in Threads :
        \/ t_find_spot(t)
        \/ t_park_vehicle(t)
        \/ t_allocate_locker(t)
        \/ t_store_package(t)
        \/ t_index(t)

SpecConc == InitConc /\ [][NextConc]_vars

\* LockerManager.retrieve_package, lines 57-58 and 62, and line 104 of the
\* controller: locker = self.find_locker_by_customer(customer_id); if locker:
t_find_locker_by_customer(t) ==
    /\ program = "locker_and_packages"
    /\ pc[t] = "idle"
    /\ \E customer_id \in Customers :
         LET ref == lockers_by_customer[customer_id]
         IN  IF ref # NoLocker
             THEN /\ pc' = [pc EXCEPT ![t] = "retrieve_package"]
                  /\ local' = [local EXCEPT ![t] =
                                  [NoLocal EXCEPT !.customer_id = customer_id,
                                                  !.locker = ref]]
             ELSE /\ pc' = [pc EXCEPT ![t] = "done"]
                  /\ local' = [local EXCEPT ![t] =
                                  [NoLocal EXCEPT !.customer_id = customer_id,
                                                  !.ret = "Package not found"]]
    /\ UNCHANGED <<docVars, engineVars, program, lockerVars, parkingVars, result>>

\* LockerManager.retrieve_package, line 59: package = locker.retrieve_package()
t_retrieve_package(t) ==
    /\ program = "locker_and_packages"
    /\ pc[t] = "retrieve_package"
    /\ lockers_by_size' =
          [lockers_by_size EXCEPT
              ![KeyIndex(lockers_by_size, local[t].locker.size)]
                  .lockers[local[t].locker.idx] = Locker_retrieve_package(@)]
    /\ local' = [local EXCEPT ![t].package =
                    LockerAt(lockers_by_size, local[t].locker).package]
    /\ pc' = [pc EXCEPT ![t] = "del"]
    /\ UNCHANGED <<docVars, engineVars, program, lockers_by_customer, locker_allocation_strategy,
                   parkingVars, result>>

\* LockerManager.retrieve_package, lines 60-61, and line 104 of the controller:
\* del self.lockers_by_customer[customer_id] raises KeyError when another call has
\* deleted the entry; the controller returns the package, or "Package not found"
\* when the locker had already been emptied
t_del(t) ==
    /\ program = "locker_and_packages"
    /\ pc[t] = "del"
    /\ IF lockers_by_customer[local[t].customer_id] = NoLocker
       THEN /\ local' = [local EXCEPT ![t].ret = "KeyError"]
            /\ UNCHANGED lockers_by_customer
       ELSE /\ lockers_by_customer' =
                  [lockers_by_customer EXCEPT ![local[t].customer_id] = NoLocker]
            /\ local' = [local EXCEPT ![t].ret =
                            IF local[t].package # NoPackage
                            THEN "package" ELSE "Package not found"]
    /\ pc' = [pc EXCEPT ![t] = "done"]
    /\ UNCHANGED <<docVars, engineVars, program, lockers_by_size, locker_allocation_strategy,
                   parkingVars, result>>

\* the threads start after receive_package has stored a SMALL package of
\* customer_1 in a pool of n lockers
ConcStored(n) ==
    LockerController_receive_package(ConcLockers(n), [c \in Customers |-> NoLocker],
                                     "FirstAvailableStrategy",
                                     [size |-> "SMALL", customer_id |-> "customer_1"])

InitConcRelease ==
    /\ program = "locker_and_packages"
    /\ locker_allocation_strategy \in LockerStrategies
    /\ parking_allocation_strategy = "None"
    /\ \E n \in 1..MaxLockers :
         /\ lockers_by_size = ConcStored(n).lockers_by_size
         /\ lockers_by_customer = ConcStored(n).lockers_by_customer
    /\ levels = <<>>
    /\ result = NoResult
    /\ pc = [t \in Threads |-> "idle"]
    /\ local = [t \in Threads |-> NoLocal]
    /\ LockerManager_instance = 0
    /\ managers = <<>>
    /\ controllers = <<>>
    /\ content = <<>>
    /\ state = "None"
    /\ command_history = <<>>

NextConcRelease ==
    \E t \in Threads :
        \/ t_allocate_locker(t)
        \/ t_store_package(t)
        \/ t_index(t)
        \/ t_find_locker_by_customer(t)
        \/ t_retrieve_package(t)
        \/ t_del(t)

SpecConcRelease == InitConcRelease /\ [][NextConcRelease]_vars

----------------------------------------------------------------------------
(* Several LockerController objects in one process. managers is the heap of  *)
(* LockerManager objects, a controller holds the index of its manager, and   *)
(* LockerManager_instance is the class attribute _instance (0 for None).     *)

\* LockerManager.__new__: the object the call LockerManager() evaluates to, and
\* the class attribute and the heap after it
LockerManager_new(instance, heap) ==
    IF instance = 0
    THEN [instance |-> Len(heap) + 1,
          managers |-> Append(heap, [lockers_by_size |-> <<>>,
                                     lockers_by_customer |->
                                         [c \in Customers |-> NoLocker]]),
          object |-> Len(heap) + 1]
    ELSE [instance |-> instance, managers |-> heap, object |-> instance]

\* LockerController.__init__
LockerController_init(instance, heap, allocation_strategy) ==
    LET n == LockerManager_new(instance, heap)
    IN  [instance |-> n.instance, managers |-> n.managers,
         controller |-> [allocation_strategy |-> allocation_strategy,
                         locker_manager |-> n.object]]

\* controller = LockerController(strategy)
new_LockerController ==
    /\ program = "locker_and_packages"
    /\ Len(controllers) < MaxControllers
    /\ \E strategy \in LockerStrategies :
         LET r == LockerController_init(LockerManager_instance, managers, strategy)
         IN  /\ LockerManager_instance' = r.instance
             /\ managers' = r.managers
             /\ controllers' = Append(controllers, r.controller)
             /\ result' = [NoResult EXCEPT !.op = "LockerController",
                                           !.strategy = strategy,
                                           !.controller = Len(controllers) + 1]
    /\ UNCHANGED <<docVars, program, lockerVars, parkingVars, threadVars>>

\* the number of lockers of all managers
RECURSIVE CountAllLockers(_, _)
CountAllLockers(heap, m) ==
    IF m > Len(heap) THEN 0
    ELSE CountLockers(heap[m].lockers_by_size, 1) + CountAllLockers(heap, m + 1)

\* controller.locker_manager.add_locker(Locker(id, size))
c_add_locker(i) ==
    /\ program = "locker_and_packages"
    /\ i \in 1..Len(controllers)
    /\ CountAllLockers(managers, 1) < MaxLockers
    /\ \E size \in SizesInUse :
         LET m == controllers[i].locker_manager
         IN  /\ managers' =
                   [managers EXCEPT ![m].lockers_by_size =
                       LockerManager_add_locker(@,
                           Locker(LockerNames[CountAllLockers(managers, 1) + 1], size))]
             /\ result' = [NoResult EXCEPT !.op = "add_locker", !.controller = i]
    /\ UNCHANGED <<docVars, program, lockerVars, parkingVars, threadVars,
                   LockerManager_instance, controllers>>

\* controller.set_strategy(strategy)
c_set_strategy(i) ==
    /\ program = "locker_and_packages"
    /\ i \in 1..Len(controllers)
    /\ \E strategy \in LockerStrategies :
         /\ controllers' =
               [controllers EXCEPT ![i].allocation_strategy =
                   LockerController_set_strategy(@, strategy)]
         /\ result' = [NoResult EXCEPT !.op = "set_strategy", !.strategy = strategy,
                                       !.controller = i]
    /\ UNCHANGED <<docVars, program, lockerVars, parkingVars, threadVars,
                   LockerManager_instance, managers>>

\* controller.receive_package(package)
c_receive_package(i) ==
    /\ program = "locker_and_packages"
    /\ i \in 1..Len(controllers)
    /\ \E package \in Packages :
         LET m == controllers[i].locker_manager
             r == LockerController_receive_package(managers[m].lockers_by_size,
                      managers[m].lockers_by_customer,
                      controllers[i].allocation_strategy, package)
         IN  /\ managers' =
                   [managers EXCEPT ![m] =
                       [lockers_by_size |-> r.lockers_by_size,
                        lockers_by_customer |-> r.lockers_by_customer]]
             /\ result' = [NoResult EXCEPT !.op = "receive_package",
                                           !.owner = package.customer_id,
                                           !.ret = r.ret, !.unit = r.unit,
                                           !.controller = i]
    /\ UNCHANGED <<docVars, program, lockerVars, parkingVars, threadVars,
                   LockerManager_instance, controllers>>

\* controller.retrieve_package(customer_id)
c_retrieve_package(i) ==
    /\ program = "locker_and_packages"
    /\ i \in 1..Len(controllers)
    /\ \E customer_id \in Customers :
         LET m == controllers[i].locker_manager
             r == LockerController_retrieve_package(managers[m].lockers_by_size,
                      managers[m].lockers_by_customer, customer_id)
         IN  /\ managers' =
                   [managers EXCEPT ![m] =
                       [lockers_by_size |-> r.lockers_by_size,
                        lockers_by_customer |-> r.lockers_by_customer]]
             /\ result' = [NoResult EXCEPT !.op = "retrieve_package",
                                           !.owner = customer_id,
                                           !.ret = r.ret, !.returned = r.returned,
                                           !.controller = i]
    /\ UNCHANGED <<docVars, program, lockerVars, parkingVars, threadVars,
                   LockerManager_instance, controllers>>

NextEngines ==
    \/ new_LockerController
    \/ \E i \in 1..MaxControllers :
         \/ c_add_locker(i)
         \/ c_set_strategy(i)
         \/ c_receive_package(i)
         \/ c_retrieve_package(i)

\* sequential callers of several LockerController objects
SpecEngines == InitLocker /\ [][NextEngines]_vars

----------------------------------------------------------------------------
(* The fit checks on their own: a strategy object, a vehicle of any kind and *)
(* one spot; the vehicle is local[1].vehicle, the spot the only spot of      *)
(* levels.                                                                   *)

\* strategy._can_fit(vehicle, spot)
can_fit(strategy, vehicle, spot) ==
    IF strategy = "FirstAvailableStrategy"
    THEN FirstAvailableStrategy_can_fit(vehicle, spot)
    ELSE IF strategy = "BestFitStrategy"
         THEN BestFitStrategy_can_fit(vehicle, spot)
         ELSE ClosestToEntranceStrategy_can_fit(vehicle, spot)

InitCanFit ==
    /\ program = "parking_lot"
    /\ lockers_by_size = <<>>
    /\ lockers_by_customer = [c \in Customers |-> NoLocker]
    /\ locker_allocation_strategy = "None"
    /\ parking_allocation_strategy = "None"
    /\ \E n \in 1..MaxSpots, size \in SpotSizes, distance_to_entrance \in Distances :
         levels = ParkingLotController_add_parking_spot(<<>>, LevelNames[1],
                      SpotNames[n], size, distance_to_entrance)
    /\ result = NoResult
    /\ pc = <<"idle">>
    /\ \E vehicle \in Vehicles \cup {OtherVehicle} :
         local = <<[NoLocal EXCEPT !.vehicle = vehicle]>>
    /\ LockerManager_instance = 0
    /\ managers = <<>>
    /\ controllers = <<>>
    /\ content = <<>>
    /\ state = "None"
    /\ command_history = <<>>

call_can_fit ==
    /\ program = "parking_lot"
    /\ pc = <<"idle">>
    /\ \E strategy \in ParkingStrategies :
         result' = [NoResult EXCEPT
                       !.op = "_can_fit", !.strategy = strategy,
                       !.owner = local[1].vehicle.license_plate,
                       !.unit = levels[1].spots[1].spot_id,
                       !.ret = IF can_fit(strategy, local[1].vehicle, levels[1].spots[1])
                               THEN "True" ELSE "False"]
    /\ UNCHANGED <<docVars, engineVars, program, lockerVars, parkingVars, threadVars>>

SpecCanFit == InitCanFit /\ [][call_can_fit]_vars

----------------------------------------------------------------------------
(* src/document_builder.py *)

\* the texts written and the sections given to the builder
Texts == {<<>>, <<"a">>, <<"a", "B">>}
Sections == {<<>>, <<<<"a">>>>}
EditingStates == {"NormalState", "UppercaseState"}

\* str.upper
upper(text) ==
    [i \in 1..Len(text) |-> IF text[i] = "a" THEN "A" ELSE text[i]]

\* the slice s[:stop] of Python: a negative stop counts from the end, and a stop
\* before the start gives the empty string
slice_to(s, stop) ==
    LET n == IF stop < 0 THEN stop + Len(s) ELSE stop
        m == IF n < 0 THEN 0 ELSE IF n > Len(s) THEN Len(s) ELSE n
    IN  SubSeq(s, 1, m)

Document_append_text(c, text) == c \o text

\* self.content = self.content[:-length]; -length is 0 when length is 0
Document_remove_text(c, length) == slice_to(c, 0 - length)

NormalState_handle_input(c, input_text) == Document_append_text(c, input_text)

UppercaseState_handle_input(c, input_text) == Document_append_text(c, upper(input_text))

\* AppendTextCommand.execute
AppendTextCommand_execute(c, st, text) ==
    IF st = "NormalState"
    THEN NormalState_handle_input(c, text)
    ELSE UppercaseState_handle_input(c, text)

\* AppendTextCommand.undo
AppendTextCommand_undo(c, text) == Document_remove_text(c, Len(text))

Document_handle_input(c, st, history, input_text) ==
    [content |-> AppendTextCommand_execute(c, st, input_text),
     command_history |-> Append(history, input_text)]

Document_undo(c, history) ==
    IF history # <<>>
    THEN [content |-> AppendTextCommand_undo(c, history[Len(history)]),
          command_history |-> SubSeq(history, 1, Len(history) - 1)]
    ELSE [content |-> c, command_history |-> history]

\* DocumentBuilder.build: every section is appended with a newline
RECURSIVE DocumentBuilder_build(_, _)
DocumentBuilder_build(sections, k) ==
    IF k > Len(sections) THEN <<>>
    ELSE Document_append_text(sections[k] \o <<"\n">>,
                              DocumentBuilder_build(sections, k + 1))

InitDocument ==
    /\ program = "document_builder"
    /\ lockers_by_size = <<>>
    /\ lockers_by_customer = [c \in Customers |-> NoLocker]
    /\ locker_allocation_strategy = "None"
    /\ parking_allocation_strategy = "None"
    /\ levels = <<>>
    /\ result = NoResult
    /\ pc = <<>>
    /\ local = <<>>
    /\ LockerManager_instance = 0
    /\ managers = <<>>
    /\ controllers = <<>>
    /\ \E sections \in Sections : content = DocumentBuilder_build(sections, 1)
    /\ state = "NormalState"
    /\ command_history = <<>>

\* Editor.write
handle_input ==
    /\ program = "document_builder"
    /\ Len(command_history) < MaxHistory
    /\ \E input_text \in Texts :
         LET r == Document_handle_input(content, state, command_history, input_text)
         IN  /\ Len(r.content) <= MaxContent
             /\ content' = r.content
             /\ command_history' = r.command_history
             /\ result' = [NoResult EXCEPT !.op = "handle_input"]
    /\ UNCHANGED <<engineVars, program, lockerVars, parkingVars, threadVars, state>>

\* Editor.undo
undo ==
    /\ program = "document_builder"
    /\ LET r == Document_undo(content, command_history)
       IN  /\ content' = r.content
           /\ command_history' = r.command_history
           /\ result' = [NoResult EXCEPT !.op = "undo"]
    /\ UNCHANGED <<engineVars, program, lockerVars, parkingVars, threadVars, state>>

\* Editor.switch_to_uppercase / switch_to_normal
set_state ==
    /\ program = "document_builder"
    /\ \E st \in EditingStates :
         /\ state' = st
         /\ result' = [NoResult EXCEPT !.op = "set_state"]
    /\ UNCHANGED <<engineVars, program, lockerVars, parkingVars, threadVars,
                   content, command_history>>

NextDocument ==
    \/ handle_input
    \/ undo
    \/ set_state

SpecDocument == InitDocument /\ [][NextDocument]_vars

----------------------------------------------------------------------------
(* Notions the properties are stated in *)

\* the package in every locker / the vehicle in every spot
LockerOccupancy(lbs) == [u \in LockerRefs(lbs) |-> LockerAt(lbs, u).package]
SpotOccupancy(lv) == [s \in SpotRefs(lv) |-> SpotAt(lv, s).vehicle]

FreeLockers(lbs) == {u \in LockerRefs(lbs) : LockerAt(lbs, u).package = NoPackage}
FreeSpots(lv) == {s \in SpotRefs(lv) : SpotAt(lv, s).vehicle = NoVehicle}

\* the lockers holding a package of customer o / the spots holding the vehicle
\* with license plate o
LockersOf(lbs, o) == {u \in LockerRefs(lbs) : LockerAt(lbs, u).package.customer_id = o}
SpotsOf(lv, o) == {s \in SpotRefs(lv) : SpotAt(lv, s).vehicle.license_plate = o}

Plates == {v.license_plate : v \in Vehicles}

\* the Compatibility Predicate of the specification
Fits(kind, size) ==
    \/ kind = "Motorcycle"
    \/ kind = "Car" /\ size \in {"compact", "large"}

\* declaration order: levels in the order added, spots of a level in the order added
DeclaredBefore(s, t) ==
    \/ s.level < t.level
    \/ s.level = t.level /\ s.idx < t.idx

----------------------------------------------------------------------------
(* C1: index consistency. In every reachable state, for every customer o and    *)
(* locker u, lockers_by_customer[o] is u if and only if u holds a package whose *)
(* customer_id is o.                                                            *)
C1_IndexConsistency ==
    \A o \in Customers : \A u \in LockerRefs(lockers_by_size) :
        (lockers_by_customer[o] = u)
            <=> (LockerAt(lockers_by_size, u).package.customer_id = o)

(* C2: mutual exclusion under concurrency. For every interleaving of          *)
(* concurrent park_vehicle / receive_package calls, no spot and no locker is    *)
(* granted to two owners: two calls made for different owners that both        *)
(* returned success never hold the same unit.                                   *)
C2_MutualExclusion ==
    \A t1 \in Threads : \A t2 \in Threads \ {t1} :
        /\ ~(/\ local[t1].ret = "parked"
             /\ local[t2].ret = "parked"
             /\ local[t1].vehicle.license_plate # local[t2].vehicle.license_plate
             /\ local[t1].spot = local[t2].spot)
        /\ ~(/\ local[t1].ret = "locker_id"
             /\ local[t2].ret = "locker_id"
             /\ local[t1].package.customer_id # local[t2].package.customer_id
             /\ local[t1].locker = local[t2].locker)

(* C3: double allocation rejection. A receive_package / park_vehicle call made  *)
(* for an owner that already holds a unit returns DuplicateOwner and occupies   *)
(* no further unit.                                                             *)
C3_DoubleAllocationRejected ==
    [][(/\ result'.op \in {"receive_package", "park_vehicle"}
        /\ \/ LockersOf(lockers_by_size, result'.owner) # {}
           \/ SpotsOf(levels, result'.owner) # {})
         => /\ result'.ret = "DuplicateOwner"
            /\ LockerOccupancy(lockers_by_size') = LockerOccupancy(lockers_by_size)
            /\ SpotOccupancy(levels') = SpotOccupancy(levels)]_vars

(* C4: one unit per owner. In every reachable state no customer_id is the       *)
(* occupant of more than one locker and no license plate of more than one spot. *)
C4_OneUnitPerOwner ==
    /\ \A o \in Customers : Cardinality(LockersOf(lockers_by_size, o)) <= 1
    /\ \A o \in Plates : Cardinality(SpotsOf(levels, o)) <= 1

(* C5: round trip. From every reachable state, receive_package(req) returning   *)
(* locker u followed at once by retrieve_package(req.customer_id) leaves u free *)
(* and the customer without index entry, and the set of free lockers and the    *)
(* whole owner index are what they were before the receive_package call.        *)
C5_RoundTrip ==
    \A package \in Packages :
        LET r1 == LockerController_receive_package(lockers_by_size, lockers_by_customer,
                      locker_allocation_strategy, package)
            r2 == LockerController_retrieve_package(r1.lockers_by_size,
                      r1.lockers_by_customer, package.customer_id)
        IN  r1.ret = "locker_id" =>
              /\ r1.locker \in FreeLockers(r2.lockers_by_size)
              /\ r2.lockers_by_customer[package.customer_id] = NoLocker
              /\ FreeLockers(r2.lockers_by_size) = FreeLockers(lockers_by_size)
              /\ r2.lockers_by_customer = lockers_by_customer

(* C6: exhaustion. When no locker / spot is both free and compatible with the   *)
(* request (for a package: under the active strategy, FirstAvailableStrategy    *)
(* takes lockers of the package's size, MostAvailableStrategy any locker),      *)
(* receive_package returns 'No available locker' and park_vehicle returns       *)
(* 'No available spot', and no occupancy and no index entry changes.            *)
C6_Compatible(strategy, package, locker) ==
    \/ strategy = "MostAvailableStrategy"
    \/ locker.size = package.size

C6_Exhaustion ==
    /\ \A package \in Packages :
         LET r == LockerController_receive_package(lockers_by_size, lockers_by_customer,
                      locker_allocation_strategy, package)
         IN  (\A u \in FreeLockers(lockers_by_size) :
                  ~C6_Compatible(locker_allocation_strategy, package,
                                 LockerAt(lockers_by_size, u)))
               => /\ r.ret = "No available locker"
                  /\ LockerOccupancy(r.lockers_by_size) = LockerOccupancy(lockers_by_size)
                  /\ r.lockers_by_customer = lockers_by_customer
    /\ \A vehicle \in Vehicles :
         LET r == ParkingLotController_park_vehicle(levels, parking_allocation_strategy,
                                                    vehicle)
         IN  (\A s \in FreeSpots(levels) : ~Fits(vehicle.kind, SpotAt(levels, s).size))
               => /\ r.ret = "No available spot"
                  /\ r.levels = levels

\* a car was turned away although a spot (one too small for it) is free
C6_Witness ==
    /\ result.op = "park_vehicle"
    /\ result.ret = "No available spot"
    /\ result.owner = "ABC123"
    /\ FreeSpots(levels) # {}

(* C7 as stated: retrieve_package(customer_id) for a customer without index     *)
(* entry returns the not-found result and changes nothing; for a customer with  *)
(* an entry it frees exactly the locker the index points at, removes the entry  *)
(* and returns the identity of the freed locker.                                *)
C7_Effect(customer_id, r) ==
    IF lockers_by_customer[customer_id] = NoLocker
    THEN /\ r.ret = "Package not found"
         /\ r.lockers_by_size = lockers_by_size
         /\ r.lockers_by_customer = lockers_by_customer
    ELSE /\ LockerOccupancy(r.lockers_by_size) =
                [LockerOccupancy(lockers_by_size)
                     EXCEPT ![lockers_by_customer[customer_id]] = NoPackage]
         /\ r.lockers_by_customer =
                [lockers_by_customer EXCEPT ![customer_id] = NoLocker]

C7_ReleaseReturnsUnitId ==
    \A customer_id \in Customers :
        LET r == LockerController_retrieve_package(lockers_by_size, lockers_by_customer,
                                                   customer_id)
        IN  /\ C7_Effect(customer_id, r)
            /\ lockers_by_customer[customer_id] # NoLocker => r.ret = "locker_id"

(* C7 amended: as above, but what retrieve_package returns for a customer with  *)
(* an entry is the Package that was stored in the freed locker (a package of    *)
(* that customer), not the locker's identity.                                   *)
C7_ReleaseReturnsPackage ==
    \A customer_id \in Customers :
        LET r == LockerController_retrieve_package(lockers_by_size, lockers_by_customer,
                                                   customer_id)
        IN  /\ C7_Effect(customer_id, r)
            /\ lockers_by_customer[customer_id] # NoLocker =>
                 /\ r.ret = "package"
                 /\ r.returned =
                      LockerAt(lockers_by_size, lockers_by_customer[customer_id]).package
                 /\ r.returned.customer_id = customer_id

\* a customer took a package out while the other customer's package stayed
C7_Witness ==
    /\ result.op = "retrieve_package"
    /\ result.ret = "package"
    /\ result.returned.customer_id = result.owner
    /\ lockers_by_customer[result.owner] = NoLocker
    /\ \E o \in Customers \ {result.owner} : lockers_by_customer[o] # NoLocker

(* C8: under each of the three strategies park_vehicle places the vehicle only  *)
(* in a spot that was free before the call and fits the vehicle, and changes no *)
(* other spot; in every reachable state no Car occupies a spot whose size is    *)
(* not 'compact' or 'large'.                                                    *)
C8_SelectedFreeAndCompatible ==
    /\ \A strategy \in ParkingStrategies : \A vehicle \in Vehicles :
         LET r == ParkingLotController_park_vehicle(levels, strategy, vehicle)
         IN  IF r.ret = "parked"
             THEN /\ r.spot \in FreeSpots(levels)
                  /\ Fits(vehicle.kind, SpotAt(levels, r.spot).size)
                  /\ SpotOccupancy(r.levels) =
                         [SpotOccupancy(levels) EXCEPT ![r.spot] = vehicle]
             ELSE r.levels = levels
    /\ \A s \in SpotRefs(levels) :
         SpotAt(levels, s).vehicle.kind = "Car"
             => SpotAt(levels, s).size \in {"compact", "large"}

\* the car was parked behind a free spot that is too small for it
C8_Witness ==
    /\ result.op = "park_vehicle"
    /\ result.ret = "parked"
    /\ result.owner = "ABC123"
    /\ \E s \in FreeSpots(levels), t \in SpotRefs(levels) :
         /\ DeclaredBefore(s, t)
         /\ SpotAt(levels, s).size = "motorcycle"
         /\ SpotAt(levels, t).spot_id = result.unit
         /\ SpotAt(levels, t).vehicle.license_plate = "ABC123"

(* C9: FirstAvailableStrategy.find_spot returns the first free compatible spot  *)
(* in declaration order (levels in the order added, spots of a level in the     *)
(* order added), whatever the distances and sizes, and None when there is none; *)
(* park_vehicle under this strategy parks in exactly that spot.                 *)
C9_Candidates(vehicle) ==
    {t \in FreeSpots(levels) : Fits(vehicle.kind, SpotAt(levels, t).size)}

C9_FirstMatchOrder ==
    \A vehicle \in Vehicles :
        LET s == FirstAvailableStrategy_find_spot(vehicle, levels)
        IN  /\ IF C9_Candidates(vehicle) = {}
               THEN s = NoSpot
               ELSE /\ s \in C9_Candidates(vehicle)
                    /\ \A t \in C9_Candidates(vehicle) \ {s} : DeclaredBefore(s, t)
            /\ parking_allocation_strategy = "FirstAvailableStrategy" =>
                 ParkingLotController_park_vehicle(levels, parking_allocation_strategy,
                                                   vehicle).spot = s

\* the car got the spot declared first although a closer spot that fits it,
\* declared later, is free
C9_Witness ==
    /\ parking_allocation_strategy = "FirstAvailableStrategy"
    /\ result.op = "park_vehicle"
    /\ result.ret = "parked"
    /\ result.owner = "ABC123"
    /\ \E s \in SpotRefs(levels), t \in FreeSpots(levels) :
         /\ SpotAt(levels, s).spot_id = result.unit
         /\ DeclaredBefore(s, t)
         /\ SpotAt(levels, t).size \in {"compact", "large"}
         /\ SpotAt(levels, t).distance_to_entrance
                < SpotAt(levels, s).distance_to_entrance

(* C10: when BestFitStrategy.find_spot returns a spot, it is a free compatible  *)
(* spot whose size has the lowest priority value, motorcycle(0) < compact(1) <  *)
(* large(2), among all free compatible spots of the pool, and among those of    *)
(* that lowest priority the one declared first; it returns a spot whenever some *)
(* free compatible spot exists and all of them have one of the three sizes.     *)
C10_Priority(size) ==
    IF size = "motorcycle" THEN 0 ELSE IF size = "compact" THEN 1 ELSE 2

C10_Ranked == {"motorcycle", "compact", "large"}

C11_Closest ==
    \A vehicle \in Vehicles :
        LET s == ClosestToEntranceStrategy_find_spot(vehicle, levels)
            cands == C9_Candidates(vehicle)
        IN  IF cands = {}
            THEN s = NoSpot
            ELSE /\ s \in cands
                 /\ \A t \in cands \ {s} :
                      \/ SpotAt(levels, s).distance_to_entrance
                             < SpotAt(levels, t).distance_to_entrance
                      \/ /\ SpotAt(levels, s).distance_to_entrance
                               = SpotAt(levels, t).distance_to_entrance
                         /\ DeclaredBefore(s, t)

\* the vehicle was parked in a later, closer spot while an earlier spot that fits
\* it, farther from the entrance, stays free
C11_Witness ==
    /\ parking_allocation_strategy = "ClosestToEntranceStrategy"
    /\ result.op = "park_vehicle"
    /\ result.ret = "parked"
    /\ \E s \in SpotRefs(levels), t \in FreeSpots(levels) :
         /\ SpotAt(levels, s).spot_id = result.unit
         /\ DeclaredBefore(t, s)
         /\ Fits(SpotAt(levels, s).vehicle.kind, SpotAt(levels, t).size)
         /\ SpotAt(levels, s).distance_to_entrance
                < SpotAt(levels, t).distance_to_entrance

(* C12: for every pool add_parking_spot can build (any size tag) and every      *)
(* vehicle, each of the three find_spot returns None exactly when no free       *)
(* compatible spot exists, returns a spot otherwise, and never raises.          *)
C12_NoneIsTheOnlyFailure ==
    \A strategy \in ParkingStrategies : \A vehicle \in Vehicles :
        LET s == find_spot(strategy, vehicle, levels)
        IN  /\ s # Raised
            /\ (s = NoSpot) <=> (C9_Candidates(vehicle) = {})
            /\ s # NoSpot => s \in C9_Candidates(vehicle)

(* C13: atomic commit under concurrent callers. The occupancy flip and the      *)
(* index update of receive_package (store_package, then the index insert) and   *)
(* of retrieve_package (locker.retrieve_package, then the index delete) are one *)
(* step: whenever a locker becomes occupied its occupant's index entry points   *)
(* at it in the same step, and whenever a locker becomes free that entry no     *)
(* longer points at it in the same step.                                        *)
C13_AtomicCommit ==
    [][\A u \in LockerRefs(lockers_by_size) :
         /\ (/\ Locker_is_available(LockerAt(lockers_by_size, u))
             /\ ~Locker_is_available(LockerAt(lockers_by_size', u)))
               => lockers_by_customer'[LockerAt(lockers_by_size', u).package.customer_id]
                     = u
         /\ (/\ ~Locker_is_available(LockerAt(lockers_by_size, u))
             /\ Locker_is_available(LockerAt(lockers_by_size', u)))
               => lockers_by_customer'[LockerAt(lockers_by_size, u).package.customer_id]
                     # u]_vars

\* the operations whose argument names an owner to release: retrieve_package takes
\* a customer_id, unpark_vehicle takes a spot_id
ReleaseByOwner == {"retrieve_package"}

(* C14: release only by the holder. A locker or a spot goes from occupied to    *)
(* free only in a release call that names the owner occupying it, and, for a    *)
(* locker, whose index entry points at that locker; no call frees a unit        *)
(* without naming the owner that occupies it.                                   *)
C14_ReleaseOnlyByHolder ==
    [][/\ \A u \in LockerRefs(lockers_by_size) :
            (/\ ~Locker_is_available(LockerAt(lockers_by_size, u))
             /\ Locker_is_available(LockerAt(lockers_by_size', u)))
               => /\ result'.op \in ReleaseByOwner
                  /\ result'.owner = LockerAt(lockers_by_size, u).package.customer_id
                  /\ lockers_by_customer[result'.owner] = u
       /\ \A s \in SpotRefs(levels) :
            (/\ ~ParkingSpot_is_available(SpotAt(levels, s))
             /\ ParkingSpot_is_available(SpotAt(levels', s)))
               => result'.op \in ReleaseByOwner]_vars

(* C15: provisioning rejects duplicate unit ids. add_locker / add_parking_spot  *)
(* with an id already present in the pool fails with DuplicateUnitId and leaves *)
(* the pool unchanged, so in every reachable state no two lockers share a       *)
(* locker_id and no two spots share a spot_id.                                  *)
C15_UnitIdsUnique ==
    /\ \A u \in LockerRefs(lockers_by_size) : \A v \in LockerRefs(lockers_by_size) \ {u} :
         LockerAt(lockers_by_size, u).locker_id # LockerAt(lockers_by_size, v).locker_id
    /\ \A s \in SpotRefs(levels) : \A t \in SpotRefs(levels) \ {s} :
         SpotAt(levels, s).spot_id # SpotAt(levels, t).spot_id

(* C16: add_parking_spot creates a level, at the end of the level order, only   *)
(* when no level with that level_id exists, so level ids stay unique; it        *)
(* appends the new spot, free, at the end of that level's spots; every existing *)
(* level keeps its position and every existing spot its position and occupant.  *)
C16_ProvisionAppends ==
    /\ \A l \in 1..Len(levels) : \A m \in 1..Len(levels) :
         levels[l].level_id = levels[m].level_id => l = m
    /\ \A level_id \in {LevelNames[i] : i \in 1..Len(LevelNames)} :
       \A size \in SpotSizes : \A distance_to_entrance \in Distances :
         LET spot_id == SpotNames[CountSpots(levels) + 1]
             after == ParkingLotController_add_parking_spot(levels, level_id, spot_id,
                                                            size, distance_to_entrance)
             exists == \E l \in 1..Len(levels) : levels[l].level_id = level_id
             last == after[Len(after)]
         IN  /\ Len(after) = IF exists THEN Len(levels) ELSE Len(levels) + 1
             /\ ~exists => /\ last.level_id = level_id
                           /\ Len(last.spots) = 1
             /\ \A l \in 1..Len(levels) :
                  /\ after[l].level_id = levels[l].level_id
                  /\ Len(after[l].spots) =
                        IF levels[l].level_id = level_id
                        THEN Len(levels[l].spots) + 1 ELSE Len(levels[l].spots)
                  /\ \A i \in 1..Len(levels[l].spots) :
                       after[l].spots[i] = levels[l].spots[i]
             /\ \E l \in 1..Len(after) :
                  /\ after[l].level_id = level_id
                  /\ after[l].spots[Len(after[l].spots)] =
                        [spot_id |-> spot_id, size |-> size,
                         distance_to_entrance |-> distance_to_entrance,
                         vehicle |-> NoVehicle]

\* a spot was appended to the level of a spot that holds a vehicle
C16_Witness ==
    /\ result.op = "add_parking_spot"
    /\ Len(levels) = 1
    /\ Len(levels[1].spots) = 2
    /\ levels[1].spots[1].vehicle # NoVehicle
    /\ levels[1].spots[2].vehicle = NoVehicle

\* what each locker strategy is to select: FirstAvailableStrategy the first free
\* locker of the package's size, MostAvailableStrategy the first free locker of
\* the size class with the most free lockers (the earliest such class)
C17_FreeIn(lbs, k) == {u \in FreeLockers(lbs) : u.size = lbs[k].size}

C17_SelectedBy(strategy, package, lbs, u) ==
    /\ u \in FreeLockers(lbs)
    /\ \A v \in FreeLockers(lbs) : v.size = u.size => u.idx <= v.idx
    /\ IF strategy = "FirstAvailableStrategy"
       THEN u.size = package.size
       ELSE LET k == KeyIndex(lbs, u.size)
            IN  /\ \A j \in 1..Len(lbs) :
                     Cardinality(C17_FreeIn(lbs, j)) <= Cardinality(C17_FreeIn(lbs, k))
                /\ \A j \in 1..(k - 1) :
                     Cardinality(C17_FreeIn(lbs, j)) < Cardinality(C17_FreeIn(lbs, k))

(* C17: LockerController.set_strategy changes only the active strategy: the     *)
(* strategy becomes the one passed in, every locker keeps its occupant and the  *)
(* index is unchanged; a receive_package that stores a package selects the      *)
(* locker with the strategy that is active when it is called, so the very next  *)
(* call after set_strategy uses the new one.                                    *)
C17_SetStrategyFrame ==
    [][/\ result'.op = "set_strategy"
            => /\ locker_allocation_strategy' = result'.strategy
               /\ lockers_by_size' = lockers_by_size
               /\ lockers_by_customer' = lockers_by_customer
       /\ (result'.op = "receive_package" /\ result'.ret = "locker_id")
            => \E u \in FreeLockers(lockers_by_size) :
                 /\ LockerAt(lockers_by_size', u).package.customer_id = result'.owner
                 /\ LockerAt(lockers_by_size', u).locker_id = result'.unit
                 /\ C17_SelectedBy(locker_allocation_strategy,
                                   LockerAt(lockers_by_size', u).package,
                                   lockers_by_size, u)]_vars

\* the strategy was switched to MostAvailableStrategy while a locker is occupied
\* and indexed
C17_Witness ==
    /\ result.op = "set_strategy"
    /\ result.strategy = "MostAvailableStrategy"
    /\ locker_allocation_strategy = "MostAvailableStrategy"
    /\ \E c \in Customers :
         /\ lockers_by_customer[c] # NoLocker
         /\ LockerAt(lockers_by_size, lockers_by_customer[c]).package.customer_id = c
    /\ FreeLockers(lockers_by_size) # {}

(* C18: strategy selection is side-effect free. allocate_locker (and the        *)
(* find_available_locker it calls) leaves lockers_by_size as it was, its set of *)
(* keys included, whatever the strategy and the package.                        *)
C18_SelectIsPure ==
    \A strategy \in LockerStrategies : \A package \in Packages :
        after_allocate_locker(strategy, package, lockers_by_size) = lockers_by_size

\* the pool, occupancy and owner index seen through controller j
C19_SeenThrough(heap, cs, j) == heap[cs[j].locker_manager]

(* C19: independent engines. Two separately constructed LockerController        *)
(* objects share no state: add_locker, receive_package, retrieve_package or     *)
(* set_strategy performed on one leaves the lockers, their occupants, the index *)
(* and the strategy seen through the other unchanged.                           *)
C19_IndependentEngines ==
    [][\A i \in 1..Len(controllers) : \A j \in 1..Len(controllers) :
         (/\ i # j
          /\ result'.controller = i
          /\ result'.op \in {"add_locker", "set_strategy", "receive_package",
                             "retrieve_package"})
            => /\ C19_SeenThrough(managers', controllers', j)
                     = C19_SeenThrough(managers, controllers, j)
               /\ controllers'[j] = controllers[j]]_vars

\* the manager after retrieve_package has been called for every customer of S
RECURSIVE C20_RetrieveAll(_, _, _)
C20_RetrieveAll(lbs, lbc, S) ==
    IF S = {}
    THEN [lockers_by_size |-> lbs, lockers_by_customer |-> lbc]
    ELSE LET c == CHOOSE c \in S : TRUE
             r == LockerController_retrieve_package(lbs, lbc, c)
         IN  C20_RetrieveAll(r.lockers_by_size, r.lockers_by_customer, S \ {c})

(* C20: no terminal state. In every reachable state every occupied locker can   *)
(* be returned to free by retrieve_package calls (calling it for every customer *)
(* leaves no locker occupied), and a locker freed this way can be allocated     *)
(* again by receive_package.                                                    *)
C20_NoTerminalState ==
    LET r == C20_RetrieveAll(lockers_by_size, lockers_by_customer, Customers)
    IN  /\ FreeLockers(r.lockers_by_size) = LockerRefs(r.lockers_by_size)
        /\ \A u \in LockerRefs(lockers_by_size) : \A c \in Customers :
             LockerController_receive_package(r.lockers_by_size, r.lockers_by_customer,
                 "FirstAvailableStrategy", [size |-> u.size, customer_id |-> c]).ret
                   = "locker_id"

(* C21: shared compatibility rule. The _can_fit of FirstAvailableStrategy, of   *)
(* BestFitStrategy and of ClosestToEntranceStrategy return the same result for  *)
(* every vehicle and spot size, and that result is true exactly for a           *)
(* Motorcycle (any size) and for a Car with size 'compact' or 'large'; a        *)
(* vehicle of any other kind never fits.                                        *)
C21_SharedCanFit ==
    \A l \in 1..Len(levels) : \A i \in 1..Len(levels[l].spots) : \A t \in 1..Len(local) :
        LET vehicle == local[t].vehicle
            spot == levels[l].spots[i]
        IN  /\ \A strategy \in ParkingStrategies :
                 can_fit(strategy, vehicle, spot) <=> Fits(vehicle.kind, spot.size)
            /\ vehicle.kind \notin {"Car", "Motorcycle"}
                 => \A strategy \in ParkingStrategies : ~can_fit(strategy, vehicle, spot)
            /\ result.op = "_can_fit"
                 => (result.ret = "True" <=> Fits(vehicle.kind, spot.size))

\* ClosestToEntranceStrategy._can_fit was asked about a vehicle that is neither a
\* car nor a motorcycle and a large spot, and answered False
C21_Witness ==
    /\ result.op = "_can_fit"
    /\ result.strategy = "ClosestToEntranceStrategy"
    /\ result.ret = "False"
    /\ local[1].vehicle = OtherVehicle
    /\ levels[1].spots[1].size = "large"

(* C22: allocate frame. A receive_package / park_vehicle call that succeeds     *)
(* changes the occupancy of exactly one unit, a unit that was free, whose id is *)
(* the one returned and which now holds the requesting owner; it sets exactly   *)
(* the index entry of that owner, to that unit; every other unit keeps its      *)
(* occupant and every other owner its index entry.                              *)
C22_AllocateFrame ==
    [][/\ (result'.op = "receive_package" /\ result'.ret = "locker_id")
            => /\ LockerRefs(lockers_by_size') = LockerRefs(lockers_by_size)
               /\ \E u \in FreeLockers(lockers_by_size) :
                    /\ LockerAt(lockers_by_size', u).locker_id = result'.unit
                    /\ LockerAt(lockers_by_size', u).package.customer_id = result'.owner
                    /\ \A v \in LockerRefs(lockers_by_size) \ {u} :
                         LockerAt(lockers_by_size', v) = LockerAt(lockers_by_size, v)
                    /\ lockers_by_customer'[result'.owner] = u
               /\ \A c \in Customers \ {result'.owner} :
                    lockers_by_customer'[c] = lockers_by_customer[c]
       /\ (result'.op = "park_vehicle" /\ result'.ret = "parked")
            => /\ SpotRefs(levels') = SpotRefs(levels)
               /\ \E s \in FreeSpots(levels) :
                    /\ SpotAt(levels', s).spot_id = result'.unit
                    /\ SpotAt(levels', s).vehicle.license_plate = result'.owner
                    /\ \A t \in SpotRefs(levels) \ {s} :
                         SpotAt(levels', t) = SpotAt(levels, t)]_vars

\* a package was stored for one customer while the other customer holds a locker
C22_Witness ==
    /\ result.op = "receive_package"
    /\ result.ret = "locker_id"
    /\ \E u \in LockerRefs(lockers_by_size) :
         /\ LockerAt(lockers_by_size, u).locker_id = result.unit
         /\ lockers_by_customer[result.owner] = u
    /\ \E c \in Customers \ {result.owner} :
         /\ lockers_by_customer[c] # NoLocker
         /\ LockerAt(lockers_by_size, lockers_by_customer[c]).package.customer_id = c

\* the number of free lockers of the k-th size class of lockers_by_size
C23_FreeCount(lbs, k) == Cardinality({u \in FreeLockers(lbs) : u.size = lbs[k].size})

(* C23: MostAvailableStrategy.allocate_locker returns None exactly when no       *)
(* locker of any size is free; otherwise it returns the first free locker, in   *)
(* insertion order, of the size class with the largest number of free lockers,  *)
(* the earliest registered of the classes with that number; the result does not *)
(* depend on the package's size.                                                *)
C23_MostAvailable ==
    \A package \in Packages :
        LET u == MostAvailableStrategy_allocate_locker(package, lockers_by_size)
        IN  /\ (u = NoLocker) <=> (FreeLockers(lockers_by_size) = {})
            /\ u # NoLocker =>
                 LET k == KeyIndex(lockers_by_size, u.size)
                 IN  /\ u \in FreeLockers(lockers_by_size)
                     /\ \A j \in 1..Len(lockers_by_size) :
                          C23_FreeCount(lockers_by_size, j)
                              <= C23_FreeCount(lockers_by_size, k)
                     /\ \A j \in 1..(k - 1) :
                          C23_FreeCount(lockers_by_size, j)
                              < C23_FreeCount(lockers_by_size, k)
                     /\ \A v \in FreeLockers(lockers_by_size) :
                          v.size = u.size => u.idx <= v.idx
            /\ \A other \in Packages :
                 MostAvailableStrategy_allocate_locker(other, lockers_by_size) = u

\* under MostAvailableStrategy a package was stored in a locker of another size
C23_Witness ==
    /\ locker_allocation_strategy = "MostAvailableStrategy"
    /\ result.op = "receive_package"
    /\ result.ret = "locker_id"
    /\ \E u \in LockerRefs(lockers_by_size) :
         /\ LockerAt(lockers_by_size, u).locker_id = result.unit
         /\ LockerAt(lockers_by_size, u).package.customer_id = result.owner
         /\ LockerAt(lockers_by_size, u).package.size # LockerAt(lockers_by_size, u).size

\* the free lockers whose size is the package's
C24_SameSizeFree(lbs, package) == {u \in FreeLockers(lbs) : u.size = package.size}

(* C24: locker size match under FirstAvailableStrategy. While the strategy is   *)
(* always FirstAvailableStrategy, receive_package stores the package in the     *)
(* first free locker, in insertion order, whose size is the package's size, and *)
(* stores nothing when there is none, even if a locker of another size is free; *)
(* in every reachable state each occupied locker holds a package of its size.   *)
C24_SizeMatch ==
    /\ \A u \in LockerRefs(lockers_by_size) :
         ~Locker_is_available(LockerAt(lockers_by_size, u))
            => LockerAt(lockers_by_size, u).package.size = LockerAt(lockers_by_size, u).size
    /\ \A package \in Packages :
         LET r == LockerController_receive_package(lockers_by_size, lockers_by_customer,
                                                   locker_allocation_strategy, package)
             same == C24_SameSizeFree(lockers_by_size, package)
         IN  IF same = {}
             THEN /\ r.ret = "No available locker"
                  /\ LockerOccupancy(r.lockers_by_size) = LockerOccupancy(lockers_by_size)
             ELSE /\ r.ret = "locker_id"
                  /\ r.locker \in same
                  /\ \A v \in same : r.locker.idx <= v.idx
                  /\ LockerOccupancy(r.lockers_by_size) =
                        [LockerOccupancy(lockers_by_size) EXCEPT ![r.locker] = package]

\* a package was turned away although a locker, of another size, is free
C24_Witness ==
    /\ locker_allocation_strategy = "FirstAvailableStrategy"
    /\ result.op = "receive_package"
    /\ result.ret = "No available locker"
    /\ FreeLockers(lockers_by_size) # {}
    /\ \E u \in LockerRefs(lockers_by_size) :
         ~Locker_is_available(LockerAt(lockers_by_size, u))

\* the pool add_parking_spot builds when every call names the same spot_id: the
\* levels, sizes, distances and occupants of lv, every spot with the id SpotNames[1]
C25_SameIds(lv) ==
    [l \in 1..Len(lv) |->
        [lv[l] EXCEPT !.spots =
            [i \in 1..Len(lv[l].spots) |->
                [lv[l].spots[i] EXCEPT !.spot_id = SpotNames[1]]]]]

\* the occupied spots of the pool with this id
C25_Occupied(lv, spot_id) ==
    {s \in SpotRefs(lv) : /\ SpotAt(lv, s).spot_id = spot_id
                          /\ SpotAt(lv, s).vehicle # NoVehicle}

(* C25: unpark_vehicle(spot_id) frees exactly one spot, the first occupied spot *)
(* in level/spot declaration order whose spot_id is the argument, and changes   *)
(* no other spot; when no occupied spot has that id it returns 'Spot not found  *)
(* or already empty' and changes nothing; the freed spot is free and fits the   *)
(* vehicle removed, so the next park_vehicle can select it.                     *)
C25_UnparkEffect ==
    \A lv \in {levels, C25_SameIds(levels)} :
    \A n \in 1..(CountSpots(levels) + 1) :
        LET spot_id == SpotNames[n]
            r == ParkingLotController_unpark_vehicle(lv, spot_id)
            occ == C25_Occupied(lv, spot_id)
        IN  IF occ = {}
            THEN /\ r.ret = "Spot not found or already empty"
                 /\ r.levels = lv
            ELSE /\ r.ret = "removed"
                 /\ r.spot \in occ
                 /\ \A t \in occ \ {r.spot} : DeclaredBefore(r.spot, t)
                 /\ r.owner = SpotAt(lv, r.spot).vehicle.license_plate
                 /\ \A t \in SpotRefs(lv) \ {r.spot} : SpotAt(r.levels, t) = SpotAt(lv, t)
                 /\ SpotAt(r.levels, r.spot) =
                       [SpotAt(lv, r.spot) EXCEPT !.vehicle = NoVehicle]
                 /\ r.spot \in FreeSpots(r.levels)
                 /\ Fits(SpotAt(lv, r.spot).vehicle.kind, SpotAt(r.levels, r.spot).size)

\* a vehicle was removed from the first of two occupied spots; the second keeps
\* its vehicle
C25_Witness ==
    /\ result.op = "unpark_vehicle"
    /\ result.ret = "removed"
    /\ \E s \in FreeSpots(levels), t \in SpotRefs(levels) :
         /\ SpotAt(levels, s).spot_id = result.unit
         /\ DeclaredBefore(s, t)
         /\ SpotAt(levels, t).vehicle # NoVehicle
         /\ SpotAt(levels, t).vehicle.license_plate # result.owner

(* C26: Document undo round trip. For every document and every text t, the      *)
(* empty string included, written with handle_input(t) in NormalState, an undo  *)
(* right after it restores content to its value before the write and removes   *)
(* the command from command_history; undo on an empty command_history changes   *)
(* nothing.                                                                     *)
C26_UndoRoundTrip ==
    /\ state = "NormalState" =>
         \A input_text \in Texts :
            LET w == Document_handle_input(content, state, command_history, input_text)
                u == Document_undo(w.content, w.command_history)
            IN  /\ u.content = content
                /\ u.command_history = command_history
    /\ command_history = <<>> =>
         Document_undo(content, command_history)
            = [content |-> content, command_history |-> command_history]

====
